---- MODULE Spec2Model ----
(***************************************************************************)
(* The Record Manager of src/src/App.jsx: the App component's state        *)
(* (movies, form, loadingMovies, submitting, error, success), its handlers *)
(* (fetchMovies, the isAuthenticated effect, handleChange, handleSubmit,   *)
(* handleDelete, the success timer) and the asynchronous continuations of  *)
(* every handler, one action per run-to-completion step of the event loop. *)
(* The Session Provider, the token source and the HTTP server are external *)
(* and answer nondeterministically.                                        *)
(***************************************************************************)
EXTENDS Integers, Sequences, FiniteSets, TLC

VARIABLES
    isAuthenticated,  \* useAuth0().isAuthenticated, as last rendered
    movies,           \* useState([])            App.jsx:18
    form,             \* useState({...})         App.jsx:19-24
    loadingMovies,    \* useState(false)         App.jsx:25
    submitting,       \* useState(false)         App.jsx:26
    error,            \* useState(null)          App.jsx:27
    success,          \* useState(null)          App.jsx:28
    lists,            \* fetchMovies invocations: slot -> "idle" or "inflight"
    creates,          \* handleSubmit invocations: slot -> "idle" or "inflight"
    deletes,          \* handleDelete invocations: slot -> position and id
    timers,           \* pending setTimeout callbacks of App.jsx:156 (all 2000 ms: FIFO)
    last              \* history: the handler step that ran last, and its outcome

vars == <<isAuthenticated, movies, form, loadingMovies, submitting, error,
          success, lists, creates, deletes, timers, last>>

----------------------------------------------------------------------------
(* Bounds of the model *)

\* An invocation of an async handler is "inflight" from its first await until
\* it resumes for the last time. The awaits of one handler (getApiToken, then
\* fetch, then res.json) are one position: resuming from the first or the
\* second only sends the request or reads the status, it neither reads nor
\* writes the component's state (the request body of App.jsx:120-125 is built
\* from the form the submit's closure captured), and whichever of them throws,
\* the same catch runs.

\* longest list the server returns and the local list may grow to
MaxLen == 2
\* invocations of one handler that may be suspended at an await at once
MaxInFlight == 2
\* handleDelete invocations that may be suspended at an await at once
MaxDeletes == 1
\* success timers that may be pending at once
MaxTimers == 2

Slots == 1..MaxInFlight
DeleteSlots == 1..MaxDeletes

----------------------------------------------------------------------------
(* JavaScript values *)

\* null (the initial value of error and success)
Null == "null"

\* a JavaScript value that is the empty string, a number, or NaN
EmptyStr == [t |-> "string", n |-> 0]
Num(k) == [t |-> "number", n |-> k]
NaN == [t |-> "nan", n |-> 0]

\* strings that are parsed are sequences of one-character strings
Digits == {"0", "1", "2", "3", "4", "5", "6", "7", "8", "9"}
DigitVal == [c \in Digits |-> CASE c = "0" -> 0 [] c = "1" -> 1 [] c = "2" -> 2
                                [] c = "3" -> 3 [] c = "4" -> 4 [] c = "5" -> 5
                                [] c = "6" -> 6 [] c = "7" -> 7 [] c = "8" -> 8
                                [] c = "9" -> 9]

RECURSIVE TrimStart(_)
TrimStart(s) == IF s # <<>> /\ Head(s) = " " THEN TrimStart(Tail(s)) ELSE s

RECURSIVE TrimEnd(_)
TrimEnd(s) ==
    IF s # <<>> /\ s[Len(s)] = " " THEN TrimEnd(SubSeq(s, 1, Len(s) - 1)) ELSE s

\* String.prototype.trim
Trim(s) == TrimEnd(TrimStart(s))

RECURSIVE DigitsValue(_)
DigitsValue(s) ==
    IF s = <<>> THEN 0
    ELSE 10 * DigitsValue(SubSeq(s, 1, Len(s) - 1)) + DigitVal[s[Len(s)]]

AllDigits(s) == s # <<>> /\ \A i \in 1..Len(s) : s[i] \in Digits

\* Number(value) on the strings the model feeds it: white space is trimmed, the
\* empty string is 0, an optionally signed decimal integer is its value, and
\* anything else is NaN.
Number(s) ==
    LET t == Trim(s) IN
    IF t = <<>> THEN Num(0)
    ELSE IF AllDigits(t) THEN Num(DigitsValue(t))
    ELSE IF Head(t) = "-" /\ AllDigits(Tail(t)) THEN Num(0 - DigitsValue(Tail(t)))
    ELSE IF Head(t) = "+" /\ AllDigits(Tail(t)) THEN Num(DigitsValue(Tail(t)))
    ELSE NaN

----------------------------------------------------------------------------
(* Inputs: what the user types and what the collaborators answer *)

TextFields == {"nome", "descricao", "diretor"}
\* what the user types under Spec and LiveSpec, where the handlers interleave
TextInputs == {<<"A">>}
NotaInputs == {<<>>, <<"5">>}
\* what the user types under FormSpec, where the draft is the subject
FormTextInputs == {<<>>, <<" ">>, <<" ", "A">>}
FormNotaInputs == {<<>>, <<" ">>, <<"a">>, <<"-", "1">>, <<"0">>, <<"5">>, <<"6">>}

MovieIds == {1, 2}
\* the records the server holds: two of them share an id
MovieRecords ==
    { [id |-> 1, nome |-> "A"], [id |-> 2, nome |-> "A"], [id |-> 2, nome |-> "B"] }
ServerLists == UNION {[1..n -> MovieRecords] : n \in 0..MaxLen}

\* HTTP statuses the server answers with; res.ok is status in 200..299
Statuses == {200, 401}
DeleteStatuses == {200, 204, 401}
Ok(status) == status \in 200..299
\* err.message of an exception thrown by getAccessTokenSilently or fetch
ThrownMessages == {"Failed to fetch"}

----------------------------------------------------------------------------
(* State updaters of the handlers *)

blankForm == [nome |-> <<>>, descricao |-> <<>>, nota |-> EmptyStr, diretor |-> <<>>]

Idle == [pc |-> "idle", id |-> 0]

\* the history variable's value: the handler step, the field and the text of an
\* edit, the id of a delete, the records of a response
Step(op, name, value, id, data) ==
    [op |-> op, name |-> name, value |-> value, id |-> id, data |-> data]

Init ==
    /\ isAuthenticated = FALSE
    /\ movies = <<>>
    /\ form = blankForm
    /\ loadingMovies = FALSE
    /\ submitting = FALSE
    /\ error = Null
    /\ success = Null
    /\ lists = [i \in Slots |-> "idle"]
    /\ creates = [i \in Slots |-> "idle"]
    /\ deletes = [i \in DeleteSlots |-> Idle]
    /\ timers = 0
    /\ last = Step("init", "", <<>>, 0, <<>>)

----------------------------------------------------------------------------
(* Slots of suspended invocations *)

HasFree(f, idle) == \E i \in DOMAIN f : f[i] = idle
FreeSlot(f, idle) == CHOOSE i \in DOMAIN f : f[i] = idle /\ \A j \in 1..(i - 1) : f[j] # idle

\* err.message || fallback
MessageOr(msg, fallback) == IF msg = "" THEN fallback ELSE msg

----------------------------------------------------------------------------
(* fetchMovies, App.jsx:45-74 *)

\* lines 46-52: up to the first await; authenticated is the isAuthenticated of
\* the render whose closure is called
fetchMovies(authenticated) ==
    IF ~authenticated
    THEN UNCHANGED <<loadingMovies, error, lists>>
    ELSE /\ HasFree(lists, "idle")
         /\ loadingMovies' = TRUE
         /\ error' = Null
         /\ lists' = [lists EXCEPT ![FreeSlot(lists, "idle")] = "inflight"]

\* ListThrow without the finally of lines 71-73
ListThrowNoFinally(i, msg) ==
    /\ lists[i] = "inflight"
    /\ error' = MessageOr(msg, "Erro ao carregar filmes.")
    /\ lists' = [lists EXCEPT ![i] = "idle"]
    /\ last' = Step("listFailed", "", <<>>, 0, <<>>)
    /\ UNCHANGED <<isAuthenticated, movies, form, loadingMovies, submitting,
                   success, creates, deletes, timers>>

\* getApiToken, fetch or res.json throws: lines 69-73
ListThrow(i, msg) ==
    /\ lists[i] = "inflight"
    /\ error' = MessageOr(msg, "Erro ao carregar filmes.")
    /\ loadingMovies' = FALSE
    /\ lists' = [lists EXCEPT ![i] = "idle"]
    /\ last' = Step("listFailed", "", <<>>, 0, <<>>)
    /\ UNCHANGED <<isAuthenticated, movies, form, submitting, success, creates,
                   deletes, timers>>

\* lines 60-65
ListErrorMessage(status) ==
    IF status = 401 \/ status = 403
    THEN "Nao autorizado para listar filmes."
    ELSE "Erro ao buscar filmes (" \o ToString(status) \o ")"

\* lines 60-65 then 69-73: a response that is not ok
ListHttpError(i, status) ==
    /\ lists[i] = "inflight"
    /\ ~Ok(status)
    /\ error' = ListErrorMessage(status)
    /\ loadingMovies' = FALSE
    /\ lists' = [lists EXCEPT ![i] = "idle"]
    /\ last' = Step("listFailed", "", <<>>, 0, <<>>)
    /\ UNCHANGED <<isAuthenticated, movies, form, submitting, success, creates,
                   deletes, timers>>

\* ListOk with setMovies((prev) => [...prev, ...data]) for line 68
ListOkMerged(i, status, data) ==
    /\ lists[i] = "inflight"
    /\ Ok(status)
    /\ movies' = movies \o data
    /\ loadingMovies' = FALSE
    /\ lists' = [lists EXCEPT ![i] = "idle"]
    /\ last' = Step("listOk", "", <<>>, 0, data)
    /\ UNCHANGED <<isAuthenticated, form, submitting, error, success, creates,
                   deletes, timers>>

\* lines 67-68 then 71-73: an ok response whose body parses to data
ListOk(i, status, data) ==
    /\ lists[i] = "inflight"
    /\ Ok(status)
    /\ movies' = data
    /\ loadingMovies' = FALSE
    /\ lists' = [lists EXCEPT ![i] = "idle"]
    /\ last' = Step("listOk", "", <<>>, 0, data)
    /\ UNCHANGED <<isAuthenticated, form, submitting, error, success, creates,
                   deletes, timers>>

\* the reload button, lines 331-337: rendered while authenticated, disabled
\* while loadingMovies
Reload ==
    /\ isAuthenticated
    /\ ~loadingMovies
    /\ fetchMovies(isAuthenticated)
    /\ last' = Step("reload", "", <<>>, 0, <<>>)
    /\ UNCHANGED <<isAuthenticated, movies, form, submitting, success, creates,
                   deletes, timers>>

----------------------------------------------------------------------------
(* the effect on isAuthenticated, App.jsx:76-83 *)

\* the Session Provider reports an authenticated session: lines 77-78
SessionAuthenticated ==
    /\ ~isAuthenticated
    /\ isAuthenticated' = TRUE
    /\ fetchMovies(TRUE)
    /\ last' = Step("authenticated", "", <<>>, 0, <<>>)
    /\ UNCHANGED <<movies, form, submitting, success, creates, deletes, timers>>

\* SessionLost without the else branch of lines 79-80
SessionLostKeepsList ==
    /\ isAuthenticated
    /\ isAuthenticated' = FALSE
    /\ last' = Step("unauthenticated", "", <<>>, 0, <<>>)
    /\ UNCHANGED <<movies, form, loadingMovies, submitting, error, success,
                   lists, creates, deletes, timers>>

\* the Session Provider reports that the session is no longer authenticated:
\* lines 79-80
SessionLost ==
    /\ isAuthenticated
    /\ isAuthenticated' = FALSE
    /\ movies' = <<>>
    /\ last' = Step("unauthenticated", "", <<>>, 0, <<>>)
    /\ UNCHANGED <<form, loadingMovies, submitting, error, success, lists,
                   creates, deletes, timers>>

----------------------------------------------------------------------------
(* handleChange, App.jsx:86-98 *)

\* line 90
NotaOf(value) == IF value = <<>> THEN EmptyStr ELSE Number(value)

\* line 91 without num < 0
NotaIgnoredNoLowerBound(num) == num # EmptyStr /\ (num = NaN \/ num.n > 5)

\* line 91: the edit is ignored
NotaIgnored(num) == num # EmptyStr /\ (num = NaN \/ num.n < 0 \/ num.n > 5)

\* the inputs are rendered while authenticated (lines 251-313)
handleChange(name, value) ==
    /\ isAuthenticated
    /\ IF name = "nota"
       THEN IF NotaIgnored(NotaOf(value))
            THEN form' = form
            ELSE form' = [form EXCEPT !.nota = NotaOf(value)]
       ELSE form' = [form EXCEPT ![name] = value]
    /\ last' = Step("handleChange", name, value, 0, <<>>)
    /\ UNCHANGED <<isAuthenticated, movies, loadingMovies, submitting, error,
                   success, lists, creates, deletes, timers>>

----------------------------------------------------------------------------
(* handleSubmit, App.jsx:101-162 *)

\* lines 106-111 with !form.nota for form.nota === ""
InvalidDraftFalsyNota(f) ==
    \/ Trim(f.nome) = <<>>
    \/ Trim(f.descricao) = <<>>
    \/ Trim(f.diretor) = <<>>
    \/ f.nota = EmptyStr
    \/ f.nota = Num(0)

\* lines 106-111
InvalidDraft(f) ==
    \/ Trim(f.nome) = <<>>
    \/ Trim(f.descricao) = <<>>
    \/ Trim(f.diretor) = <<>>
    \/ f.nota = EmptyStr

\* lines 102-117, up to the first await. The submit button is disabled while
\* submitting (line 316), which also blocks implicit submission.
handleSubmit ==
    /\ isAuthenticated
    /\ ~submitting
    /\ success' = Null
    /\ IF InvalidDraft(form)
       THEN /\ error' = "Preencha todos os campos."
            /\ last' = Step("submitInvalid", "", <<>>, 0, <<>>)
            /\ UNCHANGED <<submitting, creates>>
       ELSE /\ HasFree(creates, "idle")
            /\ error' = Null
            /\ submitting' = TRUE
            /\ creates' = [creates EXCEPT ![FreeSlot(creates, "idle")] = "inflight"]
            /\ last' = Step("submit", "", <<>>, 0, <<>>)
    /\ UNCHANGED <<isAuthenticated, movies, form, loadingMovies, lists, deletes,
                   timers>>

\* getApiToken, fetch or the res.json of line 145 throws: lines 157-161
CreateThrow(i, msg) ==
    /\ creates[i] = "inflight"
    /\ error' = MessageOr(msg, "Erro ao cadastrar filme.")
    /\ submitting' = FALSE
    /\ creates' = [creates EXCEPT ![i] = "idle"]
    /\ last' = Step("createFailed", "", <<>>, 0, <<>>)
    /\ UNCHANGED <<isAuthenticated, movies, form, loadingMovies, success, lists,
                   deletes, timers>>

\* the error payloads of a response that is not ok: parsed is false when
\* res.json throws (line 141), an absent field is the empty string
ErrorPayloads ==
    { [parsed |-> FALSE, erro |-> "", message |-> ""],
      [parsed |-> TRUE, erro |-> "nome duplicado", message |-> ""] }

\* lines 137-141
CreateErrorMessage(status, payload) ==
    LET msg == "Erro ao cadastrar filme (" \o ToString(status) \o ")" IN
    IF ~payload.parsed THEN msg
    ELSE IF payload.erro # "" THEN payload.erro
    ELSE IF payload.message # "" THEN payload.message
    ELSE msg

\* lines 136-143 then 157-161: a response that is not ok
CreateHttpError(i, status, payload) ==
    /\ creates[i] = "inflight"
    /\ ~Ok(status)
    /\ error' = MessageOr(CreateErrorMessage(status, payload), "Erro ao cadastrar filme.")
    /\ submitting' = FALSE
    /\ creates' = [creates EXCEPT ![i] = "idle"]
    /\ last' = Step("createFailed", "", <<>>, 0, <<>>)
    /\ UNCHANGED <<isAuthenticated, movies, form, loadingMovies, success, lists,
                   deletes, timers>>

\* line 146 with [saved, ...prev]
PrependSaved(prev, saved) == <<saved>> \o prev

\* line 146
AppendSaved(prev, saved) == Append(prev, saved)

\* lines 145-156 then 159-161: an ok response whose body parses to saved
CreateOk(i, status, saved) ==
    /\ creates[i] = "inflight"
    /\ Ok(status)
    /\ Len(movies) < MaxLen
    /\ timers < MaxTimers
    /\ movies' = AppendSaved(movies, saved)
    /\ form' = blankForm
    /\ success' = "Filme cadastrado com sucesso!"
    /\ timers' = timers + 1
    /\ submitting' = FALSE
    /\ creates' = [creates EXCEPT ![i] = "idle"]
    /\ last' = Step("createOk", "", <<>>, 0, <<saved>>)
    /\ UNCHANGED <<isAuthenticated, loadingMovies, error, lists, deletes>>

\* the callback of line 156; the timers all wait 2000 ms, so the oldest fires
TimerFire ==
    /\ timers > 0
    /\ timers' = timers - 1
    /\ success' = Null
    /\ last' = Step("timer", "", <<>>, 0, <<>>)
    /\ UNCHANGED <<isAuthenticated, movies, form, loadingMovies, submitting,
                   error, lists, creates, deletes>>

----------------------------------------------------------------------------
(* handleDelete, App.jsx:165-189 *)

\* line 185 with the first match spliced out
RECURSIVE RemoveFirstById(_, _)
RemoveFirstById(prev, id) ==
    IF prev = <<>> THEN <<>>
    ELSE IF Head(prev).id = id THEN Tail(prev)
    ELSE <<Head(prev)>> \o RemoveFirstById(Tail(prev), id)

\* line 185
RemoveById(prev, id) == SelectSeq(prev, LAMBDA m : m.id # id)

\* lines 166-172, up to the first await: the button of a row of the table
\* (lines 368-373), ok is the answer to window.confirm
handleDelete(id, ok) ==
    /\ isAuthenticated
    /\ \E k \in 1..Len(movies) : movies[k].id = id
    /\ IF id = 0 \/ ~ok
       THEN /\ last' = Step("deleteCancelled", "", <<>>, id, <<>>)
            /\ UNCHANGED <<error, deletes>>
       ELSE /\ HasFree(deletes, Idle)
            /\ error' = Null
            /\ deletes' = [deletes EXCEPT ![FreeSlot(deletes, Idle)] =
                               [pc |-> "inflight", id |-> id]]
            /\ last' = Step("delete", "", <<>>, id, <<>>)
    /\ UNCHANGED <<isAuthenticated, movies, form, loadingMovies, submitting,
                   success, lists, creates, timers>>

\* getApiToken or fetch throws: lines 186-188
DeleteThrow(i, msg) ==
    /\ deletes[i].pc = "inflight"
    /\ error' = MessageOr(msg, "Erro ao excluir filme.")
    /\ deletes' = [deletes EXCEPT ![i] = Idle]
    /\ last' = Step("deleteFailed", "", <<>>, deletes[i].id, <<>>)
    /\ UNCHANGED <<isAuthenticated, movies, form, loadingMovies, submitting,
                   success, lists, creates, timers>>

\* line 181
DeleteRejected(status) == ~Ok(status) /\ status # 204

\* DeleteHttpError with line 185 moved before the check of line 181
DeleteHttpErrorOptimistic(i, status) ==
    /\ deletes[i].pc = "inflight"
    /\ DeleteRejected(status)
    /\ movies' = RemoveById(movies, deletes[i].id)
    /\ error' = "Erro ao excluir filme (" \o ToString(status) \o ")"
    /\ deletes' = [deletes EXCEPT ![i] = Idle]
    /\ last' = Step("deleteFailed", "", <<>>, deletes[i].id, <<>>)
    /\ UNCHANGED <<isAuthenticated, form, loadingMovies, submitting, success,
                   lists, creates, timers>>

\* lines 181-183 then 186-188
DeleteHttpError(i, status) ==
    /\ deletes[i].pc = "inflight"
    /\ DeleteRejected(status)
    /\ error' = "Erro ao excluir filme (" \o ToString(status) \o ")"
    /\ deletes' = [deletes EXCEPT ![i] = Idle]
    /\ last' = Step("deleteFailed", "", <<>>, deletes[i].id, <<>>)
    /\ UNCHANGED <<isAuthenticated, movies, form, loadingMovies, submitting,
                   success, lists, creates, timers>>

\* lines 181-185
DeleteOk(i, status) ==
    /\ deletes[i].pc = "inflight"
    /\ ~DeleteRejected(status)
    /\ movies' = RemoveById(movies, deletes[i].id)
    /\ deletes' = [deletes EXCEPT ![i] = Idle]
    /\ last' = Step("deleteOk", "", <<>>, deletes[i].id, <<>>)
    /\ UNCHANGED <<isAuthenticated, form, loadingMovies, submitting, error,
                   success, lists, creates, timers>>

----------------------------------------------------------------------------
(* The specification *)

Next ==
    \/ SessionAuthenticated
    \/ SessionLost
    \/ Reload
    \/ \E i \in Slots, msg \in ThrownMessages : ListThrow(i, msg)
    \/ \E i \in Slots, status \in Statuses : ListHttpError(i, status)
    \/ \E i \in Slots, status \in Statuses, data \in ServerLists : ListOk(i, status, data)
    \/ \E name \in TextFields, value \in TextInputs : handleChange(name, value)
    \/ \E value \in NotaInputs : handleChange("nota", value)
    \/ handleSubmit
    \/ \E i \in Slots, msg \in ThrownMessages : CreateThrow(i, msg)
    \/ \E i \in Slots, status \in Statuses, payload \in ErrorPayloads :
           CreateHttpError(i, status, payload)
    \/ \E i \in Slots, status \in Statuses, saved \in MovieRecords :
           CreateOk(i, status, saved)
    \/ TimerFire
    \/ \E id \in MovieIds, ok \in BOOLEAN : handleDelete(id, ok)
    \/ \E i \in DeleteSlots, msg \in ThrownMessages : DeleteThrow(i, msg)
    \/ \E i \in DeleteSlots, status \in DeleteStatuses : DeleteHttpError(i, status)
    \/ \E i \in DeleteSlots, status \in DeleteStatuses : DeleteOk(i, status)

Spec == Init /\ [][Next]_vars

\* The draft and its validation: one session, every kind of text typed, and
\* the Create that a valid draft starts.
FormNext ==
    \/ SessionAuthenticated
    \/ \E name \in TextFields, value \in FormTextInputs : handleChange(name, value)
    \/ \E value \in FormNotaInputs : handleChange("nota", value)
    \/ handleSubmit
    \/ \E i \in Slots, msg \in ThrownMessages : CreateThrow(i, msg)
    \/ \E i \in Slots, status \in Statuses, payload \in ErrorPayloads :
           CreateHttpError(i, status, payload)
    \/ \E i \in Slots, status \in Statuses : CreateOk(i, status, [id |-> 1, nome |-> "A"])
    \/ TimerFire

FormSpec == Init /\ [][FormNext]_vars

\* List and Create under the assumption that every token acquisition and every
\* HTTP call completes: an invocation in flight eventually resumes.
\* the answers of the server under LiveSpec
LiveLists == {<<>>, << [id |-> 1, nome |-> "A"] >>}
LiveRecords == {[id |-> 1, nome |-> "A"]}
LivePayloads == {[parsed |-> FALSE, erro |-> "", message |-> ""]}

\* the user fills the blank fields of the form in the order of the page
LiveEdits ==
    IF form.nome = <<>> THEN {<<"nome", <<"A">>>>}
    ELSE IF form.diretor = <<>> THEN {<<"diretor", <<"A">>>>}
    ELSE IF form.nota = EmptyStr THEN {<<"nota", <<"5">>>>}
    ELSE IF form.descricao = <<>> THEN {<<"descricao", <<"A">>>>}
    ELSE {}

ListResumes(i) ==
    \/ \E msg \in ThrownMessages : ListThrow(i, msg)
    \/ \E status \in Statuses : ListHttpError(i, status)
    \/ \E status \in Statuses, data \in LiveLists : ListOk(i, status, data)

CreateResumes(i) ==
    \/ \E msg \in ThrownMessages : CreateThrow(i, msg)
    \/ \E status \in Statuses, payload \in LivePayloads :
           CreateHttpError(i, status, payload)
    \/ \E status \in Statuses, saved \in LiveRecords : CreateOk(i, status, saved)

LiveNext ==
    \/ SessionAuthenticated
    \/ SessionLost
    \/ Reload
    \/ \E i \in Slots : ListResumes(i)
    \/ \E edit \in LiveEdits : handleChange(edit[1], edit[2])
    \/ handleSubmit
    \/ \E i \in Slots : CreateResumes(i)
    \/ TimerFire

LiveSpec ==
    /\ Init
    /\ [][LiveNext]_vars
    /\ \A i \in Slots : WF_vars(ListResumes(i)) /\ WF_vars(CreateResumes(i))

----------------------------------------------------------------------------
(* The claims. Every action sets last', so last' names the step being taken. *)

InFlight(f) == {i \in DOMAIN f : f[i] = "inflight"}
DeletesInFlight == {i \in DOMAIN deletes : deletes[i].pc = "inflight"}

\* a text that is empty or holds white space only
BlankText(s) == \A k \in 1..Len(s) : s[k] = " "

\* a draft with a blank text field or an empty nota
BlankDraft(f) ==
    \/ BlankText(f.nome)
    \/ BlankText(f.descricao)
    \/ BlankText(f.diretor)
    \/ f.nota = EmptyStr

\* C1: a handleSubmit on a draft with a blank nome, descricao or diretor, or an
\* empty nota, starts no Create (no token, no request), sets error to "Preencha
\* todos os campos.", leaves submitting false and leaves movies and form as
\* they were; a draft with nota the number 0 and the texts non-blank is not
\* rejected: its Create starts.
C1_BlankDraftSendsNothing ==
    [][last'.op \in {"submit", "submitInvalid"} =>
          /\ BlankDraft(form) =>
                /\ last'.op = "submitInvalid"
                /\ creates' = creates
                /\ error' = "Preencha todos os campos."
                /\ submitting' = FALSE
                /\ movies' = movies
                /\ form' = form
          /\ (~BlankDraft(form) /\ form.nota = Num(0)) =>
                /\ last'.op = "submit"
                /\ error' = Null
                /\ submitting' = TRUE
                /\ Cardinality(InFlight(creates')) = Cardinality(InFlight(creates)) + 1
       ]_vars

\* a submit was rejected for a nome of white space only, the rest being filled
C1_Witness ==
    /\ last.op = "submitInvalid"
    /\ form.nome = <<" ">>
    /\ ~BlankText(form.descricao)
    /\ ~BlankText(form.diretor)
    /\ form.nota = Num(0)
    /\ error = "Preencha todos os campos."
    /\ InFlight(creates) = {}

\* the draft with all four fields empty
EmptyDraft(f) ==
    f.nome = <<>> /\ f.descricao = <<>> /\ f.diretor = <<>> /\ f.nota = EmptyStr

\* C2: the step that processes the 2xx response of a Create leaves movies equal
\* to movies as it was just before with the server-returned record appended at
\* the end, and leaves the draft blank, whatever List, Delete and edits did
\* while the request was in flight.
C2_CreateAppendsAndBlanks ==
    [][last'.op = "createOk" =>
          /\ Len(movies') = Len(movies) + 1
          /\ \A k \in 1..Len(movies) : movies'[k] = movies[k]
          /\ movies'[Len(movies')] = last'.data[1]
          /\ EmptyDraft(form')
       ]_vars

\* a Create succeeded onto a non-empty list while a List and a Delete were in flight
C2_Witness ==
    /\ last.op = "createOk"
    /\ Len(movies) = 2
    /\ movies[2] = last.data[1]
    /\ InFlight(lists) # {}
    /\ DeletesInFlight # {}

\* the records of s whose id is not id, in the order of s
RECURSIVE Others(_, _)
Others(s, id) ==
    IF s = <<>> THEN <<>>
    ELSE IF Head(s).id = id THEN Others(Tail(s), id)
    ELSE <<Head(s)>> \o Others(Tail(s), id)

C4_ListReplaces ==
    [][last'.op = "listOk" => movies' = last'.data]_vars

\* a List succeeded with two records in the order the server gave them
C4_Witness ==
    /\ last.op = "listOk"
    /\ movies = << [id |-> 2, nome |-> "A"], [id |-> 1, nome |-> "A"] >>

\* C5: an edit of nota whose input is the empty string sets nota to the empty
\* string; an input that Number coerces to a number in [0,5] sets nota to that
\* number; any other input (NaN, below 0, above 5) leaves the whole draft as it
\* was. So nota is always the empty string or a number in [0,5].
C5_NotaEdit ==
    /\ [](form.nota = EmptyStr \/ (form.nota.t = "number" /\ form.nota.n \in 0..5))
    /\ [][(last'.op = "handleChange" /\ last'.name = "nota") =>
             LET num == Number(last'.value) IN
             IF last'.value = <<>> THEN form' = [form EXCEPT !.nota = EmptyStr]
             ELSE IF num.t = "number" /\ num.n >= 0 /\ num.n <= 5
                  THEN form' = [form EXCEPT !.nota = num]
                  ELSE form' = form
         ]_vars

\* the input "6" was ignored and nota kept the 5 it held
C5_Witness ==
    /\ last.op = "handleChange"
    /\ last.name = "nota"
    /\ last.value = <<"6">>
    /\ form.nota = Num(5)

\* C6: the step in which a Delete fails leaves movies as it was and sets an
\* error message; the step in which a Create that passed validation fails
\* leaves form and movies as they were and sets an error message.
C6_FailureKeepsData ==
    [][/\ last'.op = "deleteFailed" =>
             movies' = movies /\ error' # Null /\ error' # ""
       /\ last'.op = "createFailed" =>
             form' = form /\ movies' = movies /\ error' # Null /\ error' # ""
      ]_vars

\* a Delete failed on a status that is not ok and its record is still listed
C6_Witness ==
    /\ last.op = "deleteFailed"
    /\ error = "Erro ao excluir filme (401)"
    /\ \E k \in 1..Len(movies) : movies[k].id = last.id

\* C7: at most one List and at most one Create are in flight.
C7_OneListOneCreate ==
    /\ Cardinality(InFlight(lists)) <= 1
    /\ Cardinality(InFlight(creates)) <= 1

\* C8: the success notice stays displayed until the timer of the Create that
\* set it fires, or a new submit begins. A displayed notice was set by the last
\* successful Create, whose timer is the newest one pending; the timer that
\* fires is the oldest one pending: it is the notice's own timer only when it
\* is the only one.
C8_NoticeUntilOwnTimer ==
    [][(success # Null /\ success' = Null) =>
          \/ last'.op \in {"submit", "submitInvalid"}
          \/ last'.op = "timer" /\ timers = 1
      ]_vars

\* C9: an invocation of fetchMovies in flight eventually ends with
\* loadingMovies false, and a Create in flight eventually ends with submitting
\* false.
C9_FlagsReturn ==
    \A i \in Slots :
        /\ (lists[i] = "inflight") ~> (lists[i] = "idle" /\ ~loadingMovies)
        /\ (creates[i] = "inflight") ~> (creates[i] = "idle" /\ ~submitting)

\* a List has failed, none is in flight, and loadingMovies is false
C9_Witness ==
    /\ last.op = "listFailed"
    /\ InFlight(lists) = {}
    /\ ~loadingMovies

\* C10: whenever the session is not authenticated, movies is empty.
C10_EmptyWhileUnauthenticated == ~isAuthenticated => movies = <<>>

\* C10 as amended: movies is emptied in the step in which the session stops
\* being authenticated; while it stays unauthenticated no List, Create or
\* Delete starts, and movies changes only when the response of a List, Create
\* or Delete that was already in flight is processed.
C10_EmptiedOnLoss ==
    [][/\ (isAuthenticated /\ ~isAuthenticated') => movies' = <<>>
       /\ (~isAuthenticated /\ ~isAuthenticated') =>
             /\ InFlight(lists') \subseteq InFlight(lists)
             /\ InFlight(creates') \subseteq InFlight(creates)
             /\ \A i \in DeleteSlots :
                    deletes'[i].pc = "inflight" => deletes'[i] = deletes[i]
             /\ movies' # movies => last'.op \in {"listOk", "createOk", "deleteOk"}
      ]_vars

\* the response of a List in flight at the loss repopulated movies
C10_Witness ==
    /\ ~isAuthenticated
    /\ last.op = "listOk"
    /\ movies # <<>>

====
